---- MODULE Spec2Model ----
(***************************************************************************)
(* A model of src/hopfield_net.py: the discrete Hopfield network class     *)
(* Hopfield (__init__, train_net, update_net) and the vector example of    *)
(* main().                                                                 *)
(*                                                                         *)
(* Arrays.  A numpy array is modelled by its elements in row-major order   *)
(* and its shape by the lengths of the sequences:                          *)
(*   - a training pattern is the array of shape (1, 1, M) that main()      *)
(*     hands to train_net (line 87), modelled as the sequence of its M     *)
(*     elements;                                                           *)
(*   - a cue is the array of shape (1, M) that main() hands to update_net  *)
(*     (line 88), modelled as the sequence of its M elements;              *)
(*   - weight_matrix is a sequence of rows.                                *)
(* Indices are 1-based here and 0-based in the source: node k of the model *)
(* is node k-1 of the code.  Weights are floats in the code; every value   *)
(* that arises from 0/1 vectors is a small integer, exactly representable. *)
(*                                                                         *)
(* numpy broadcasting (lines 51 and 71) is modelled by what it does: two   *)
(* dimensions are compatible when they are equal or one of them is 1, the  *)
(* dimension 1 is stretched, and incompatible shapes raise ValueError.     *)
(***************************************************************************)
EXTENDS Integers, Sequences, FiniteSets, TLC

\* ------------------------------------------------------------------ bounds
\* Largest neuron_num a store is constructed with.
MaxN == 3
\* neuron_num ranges over -MaxNeg..MaxN at construction.
MaxNeg == 2
\* Patterns and cues have lengths 0..MaxLen.
MaxLen == 3
\* The threshold ranges over -MaxThreshold..MaxThreshold.
MaxThreshold == 1
\* Largest neuron_num under SpecW (arbitrary symmetric matrices).
MaxNW == 2

\* The vector example of main(): Hopfield(neuron_num=4, threshold=0).
RefN == 4
RefThreshold == 0
RefPattern == <<1, 1, 1, 0>>
RefCue == <<0, 0, 1, 0>>

NeuronNums == (0 - MaxNeg)..MaxN
Thresholds == (0 - MaxThreshold)..MaxThreshold
\* Entries of the matrices SpecW starts from.
Weights == {-1, 0, 1}

BinVec(m) == [1..m -> {0, 1}]
Vectors == UNION {BinVec(m) : m \in 0..MaxLen}

VARIABLES
    pc,               \* "start" | "idle" | "while" | "for" | "failed"
    neuron_num,       \* self.neuron_num
    threshold,        \* self.threshold
    weight_matrix,    \* self.weight_matrix
    call,             \* the last call made: [op, arg]
    stored,           \* the pattern the last successful train_net was given
    replaced,         \* the stored pattern the last call, a train_net, replaced
    fed_back,         \* the last call is an update_net of the vector the call
                      \* before it, an update_net, returned
    outcome,          \* "none" (in flight) | "ok" | the exception raised
    input_vector,     \* the caller's cue array of the last update_net call
    intermediate_out, \* update_net: the working state
    node_index,       \* update_net: the visiting order
    pos,              \* update_net: position of the for loop in node_index
    changed,          \* update_net: local flag
    convergence,      \* update_net: local flag
    result            \* the vector the last call returned, <<>> if none

vars == <<pc, neuron_num, threshold, weight_matrix, call, stored, replaced,
          fed_back, outcome,
          input_vector, intermediate_out, node_index, pos, changed,
          convergence, result>>

store == <<neuron_num, threshold, weight_matrix>>
locals == <<input_vector, intermediate_out, node_index, pos, changed, convergence>>

\* ------------------------------------------------------------ numpy helpers
RECURSIVE SumTo(_, _)
SumTo(f, n) == IF n = 0 THEN 0 ELSE f[n] + SumTo(f, n - 1)

\* np.sum over every element of a 1-row array.
NpSum(s) == SumTo(s, Len(s))

\* np.zeros((n, n))
Zeros(n) == [i \in 1..n |-> [j \in 1..n |-> 0]]

\* np.eye(n)
Eye(n) == [i \in 1..n |-> [j \in 1..n |-> IF i = j THEN 1 ELSE 0]]

\* Broadcasting of two dimensions.
Broadcastable(a, b) == a = b \/ a = 1 \/ b = 1
BDim(a, b) == IF a = 1 THEN b ELSE a
BIdx(i, d) == IF d = 1 THEN 1 ELSE i

\* All orders shuffle() can leave the list in.
Perms(s) ==
    {p \in [1..Len(s) -> {s[i] : i \in 1..Len(s)}] :
        \A i, j \in 1..Len(s) : i # j => p[i] # p[j]}


\* ------------------------------------------------------ Hopfield.__init__
\* np.zeros((n, n)) raises ValueError for a negative dimension; 0 is accepted.
InitRaises(n) == n < 0

Hopfield_init(n, th) ==
    /\ pc = "start"
    /\ call' = [op |-> "__init__", arg |-> <<n, th>>]
    /\ IF InitRaises(n)
       THEN /\ pc' = "failed"
            /\ outcome' = "ValueError"
            /\ UNCHANGED store
       ELSE /\ pc' = "idle"
            /\ outcome' = "ok"
            /\ neuron_num' = n
            /\ threshold' = th
            /\ weight_matrix' = Zeros(n)
    /\ UNCHANGED <<stored, replaced, fed_back, locals, result>>

\* ------------------------------------------------------ Hopfield.train_net
\* Bipolar encoding 2*V - 1 (line 69).
BipolarRaw(x) == x
Bipolar(x) == 2 * x - 1

\* Lines 69-70: (2v-1) of shape (1,1,M) times its transpose of shape (M,1,1)
\* is the (M,1,M) array of products; the sum over axis 1 drops the middle axis.
OuterOneSided(v) ==
    [i \in 1..Len(v) |-> [j \in 1..Len(v) |-> Bipolar(v[i]) * v[j]]]
Outer(v) ==
    [i \in 1..Len(v) |-> [j \in 1..Len(v) |-> Bipolar(v[i]) * Bipolar(v[j])]]

\* Line 71: (1 - np.eye(n)) * m, with broadcasting of (n,n) against (M,M).
MaskRaises(n, m) == ~Broadcastable(n, Len(m))
MaskKeepsDiag(n, m) ==
    LET d == BDim(n, Len(m))
    IN  [i \in 1..d |-> [j \in 1..d |->
            Eye(n)[BIdx(i, n)][BIdx(j, n)] * m[BIdx(i, Len(m))][BIdx(j, Len(m))]]]
NoMask(n, m) ==
    LET d == BDim(n, Len(m))
    IN  [i \in 1..d |-> [j \in 1..d |-> m[BIdx(i, Len(m))][BIdx(j, Len(m))]]]
MaskDiag(n, m) ==
    LET d == BDim(n, Len(m))
    IN  [i \in 1..d |-> [j \in 1..d |->
            (1 - Eye(n)[BIdx(i, n)][BIdx(j, n)]) * m[BIdx(i, Len(m))][BIdx(j, Len(m))]]]

\* Matrix addition, element by element.
MatAdd(a, b) == [i \in 1..Len(a) |-> [j \in 1..Len(a[i]) |-> a[i][j] + b[i][j]]]

train_net_accumulates(v) ==
    /\ pc = "idle"
    /\ call' = [op |-> "train_net", arg |-> v]
    /\ IF MaskRaises(neuron_num, Outer(v))
          \/ Len(MaskDiag(neuron_num, Outer(v))) # Len(weight_matrix)
       THEN /\ outcome' = "ValueError"
            /\ replaced' = [set |-> FALSE, v |-> <<>>]
            /\ UNCHANGED <<weight_matrix, stored>>
       ELSE /\ outcome' = "ok"
            /\ weight_matrix' = MatAdd(weight_matrix, MaskDiag(neuron_num, Outer(v)))
            /\ stored' = [set |-> TRUE, v |-> v]
            /\ replaced' = stored
    /\ result' = <<>>
    /\ input_vector' = <<>>
    /\ fed_back' = FALSE
    /\ UNCHANGED <<pc, neuron_num, threshold, intermediate_out, node_index, pos,
                   changed, convergence>>
train_net(v) ==
    /\ pc = "idle"
    /\ call' = [op |-> "train_net", arg |-> v]
    /\ IF MaskRaises(neuron_num, Outer(v))
       THEN /\ outcome' = "ValueError"
            /\ replaced' = [set |-> FALSE, v |-> <<>>]
            /\ UNCHANGED <<weight_matrix, stored>>
       ELSE /\ outcome' = "ok"
            /\ weight_matrix' = MaskDiag(neuron_num, Outer(v))
            /\ stored' = [set |-> TRUE, v |-> v]
            /\ replaced' = stored
    /\ result' = <<>>
    /\ input_vector' = <<>>
    /\ fed_back' = FALSE
    /\ UNCHANGED <<pc, neuron_num, threshold, intermediate_out, node_index, pos,
                   changed, convergence>>

\* ----------------------------------------------------- Hopfield.update_net
\* Lines 42-44.
UpdateNetCall(cue) ==
    /\ pc = "idle"
    /\ call' = [op |-> "update_net", arg |-> cue]
    /\ outcome' = "none"
    /\ pc' = "while"
    /\ convergence' = FALSE
    /\ input_vector' = cue
    /\ intermediate_out' = cue
    /\ node_index' = [i \in 1..neuron_num |-> i]
    /\ pos' = 0
    /\ changed' = FALSE
    /\ result' = <<>>
    /\ replaced' = [set |-> FALSE, v |-> <<>>]
    /\ fed_back' = (pc = "idle" /\ call.op = "update_net" /\ outcome = "ok"
                      /\ cue = result)
    /\ UNCHANGED <<store, stored>>

\* Lines 46-48: the loop test, the shuffle, changed = False.
Shuffle ==
    /\ pc = "while"
    /\ ~convergence
    /\ pc' = "for"
    /\ node_index' \in Perms(node_index)
    /\ changed' = FALSE
    /\ pos' = 1
    /\ UNCHANGED <<store, call, stored, replaced, fed_back, outcome, input_vector, intermediate_out,
                   convergence, result>>

\* The exception one iteration of the for loop raises, "none" if it raises
\* none: the operands of line 50-51 are evaluated left to right.
NodeRaises(node) ==
    IF node > Len(input_vector) THEN "IndexError"
    ELSE IF node > Len(weight_matrix) THEN "IndexError"
    ELSE IF ~Broadcastable(Len(weight_matrix[node]), Len(intermediate_out))
         THEN "ValueError"
    ELSE "none"

\* Line 51: self.weight_matrix[node].reshape(1, -1) * intermediate_out
RowTimes(row, out) ==
    [j \in 1..BDim(Len(row), Len(out)) |->
        row[BIdx(j, Len(row))] * out[BIdx(j, Len(out))]]

\* Lines 50-51.
ValNegBias(node) ==
    NpSum(RowTimes(weight_matrix[node], intermediate_out)) - input_vector[node]
ValCurrentBias(node) ==
    intermediate_out[node] + NpSum(RowTimes(weight_matrix[node], intermediate_out))
Val(node) ==
    input_vector[node] + NpSum(RowTimes(weight_matrix[node], intermediate_out))

\* Lines 52-57: the new activation of a node and whether it changed.
ActivationTieFlips(val, th, cur) ==
    IF val >= th /\ cur # 1 THEN [out |-> 1, changed |-> TRUE]
    ELSE IF val <= th /\ cur # 0 THEN [out |-> 0, changed |-> TRUE]
    ELSE [out |-> cur, changed |-> FALSE]
ActivationBipolar(val, th, cur) ==
    IF val >= th /\ cur # 1 THEN [out |-> 1, changed |-> TRUE]
    ELSE IF val < th /\ cur # -1 THEN [out |-> -1, changed |-> TRUE]
    ELSE [out |-> cur, changed |-> FALSE]
Activation(val, th, cur) ==
    IF val >= th /\ cur # 1 THEN [out |-> 1, changed |-> TRUE]
    ELSE IF val < th /\ cur # 0 THEN [out |-> 0, changed |-> TRUE]
    ELSE [out |-> cur, changed |-> FALSE]

\* The locals of update_net go out of scope; the caller keeps its cue array.
Unwind ==
    /\ UNCHANGED input_vector
    /\ intermediate_out' = <<>>
    /\ node_index' = <<>>
    /\ pos' = 0
    /\ changed' = FALSE
    /\ convergence' = FALSE

\* Lines 49-57: one iteration of the for loop.
NodeStepAliased ==
    /\ pc = "for"
    /\ pos <= Len(node_index)
    /\ LET node == node_index[pos]
       IN  IF NodeRaises(node) # "none"
           THEN /\ pc' = "idle"
                /\ outcome' = NodeRaises(node)
                /\ Unwind
           ELSE LET a == Activation(Val(node), threshold, intermediate_out[node])
                IN  /\ intermediate_out' = [intermediate_out EXCEPT ![node] = a.out]
                    /\ input_vector' = [intermediate_out EXCEPT ![node] = a.out]
                    /\ changed' = (changed \/ a.changed)
                    /\ pos' = pos + 1
                    /\ UNCHANGED <<pc, outcome, node_index, convergence>>
    /\ UNCHANGED <<store, call, stored, replaced, fed_back, result>>
NodeStepInPlace ==
    /\ pc = "for"
    /\ pos <= Len(node_index)
    /\ LET node == node_index[pos]
       IN  IF NodeRaises(node) # "none"
           THEN /\ pc' = "idle"
                /\ outcome' = NodeRaises(node)
                /\ Unwind
                /\ UNCHANGED weight_matrix
           ELSE LET a == Activation(Val(node), threshold, intermediate_out[node])
                IN  /\ intermediate_out' = [intermediate_out EXCEPT ![node] = a.out]
                    /\ changed' = (changed \/ a.changed)
                    /\ pos' = pos + 1
                    /\ weight_matrix' = [weight_matrix EXCEPT ![node] =
                            RowTimes(weight_matrix[node], intermediate_out)]
                    /\ UNCHANGED <<pc, outcome, input_vector, node_index, convergence>>
    /\ UNCHANGED <<neuron_num, threshold, call, stored, replaced, fed_back, result>>
NodeStep ==
    /\ pc = "for"
    /\ pos <= Len(node_index)
    /\ LET node == node_index[pos]
       IN  IF NodeRaises(node) # "none"
           THEN /\ pc' = "idle"
                /\ outcome' = NodeRaises(node)
                /\ Unwind
           ELSE LET a == Activation(Val(node), threshold, intermediate_out[node])
                IN  /\ intermediate_out' = [intermediate_out EXCEPT ![node] = a.out]
                    /\ changed' = (changed \/ a.changed)
                    /\ pos' = pos + 1
                    /\ UNCHANGED <<pc, outcome, input_vector, node_index, convergence>>
    /\ UNCHANGED <<store, call, stored, replaced, fed_back, result>>

\* Lines 59-60: the end of a pass.
PassEndAlwaysConverges ==
    /\ pc = "for"
    /\ pos > Len(node_index)
    /\ pc' = "while"
    /\ convergence' = TRUE
    /\ UNCHANGED <<store, call, stored, replaced, fed_back, outcome, input_vector, intermediate_out,
                   node_index, pos, changed, result>>
PassEnd ==
    /\ pc = "for"
    /\ pos > Len(node_index)
    /\ pc' = "while"
    /\ convergence' = IF ~changed THEN TRUE ELSE convergence
    /\ UNCHANGED <<store, call, stored, replaced, fed_back, outcome, input_vector, intermediate_out,
                   node_index, pos, changed, result>>

\* Line 62.
Return ==
    /\ pc = "while"
    /\ convergence
    /\ pc' = "idle"
    /\ outcome' = "ok"
    /\ result' = intermediate_out
    /\ Unwind
    /\ UNCHANGED <<store, call, stored, replaced, fed_back>>

Relax == Shuffle \/ NodeStep \/ PassEnd \/ Return

\* update_net with the shuffle of line 47 leaving node_index in index order
\* in every pass, as a function of the matrix, the threshold and the cue
\* (lengths all equal): NetIn is lines 50-51, PassFrom the for loop of lines
\* 49-57 from node i on, Settle the while loop of lines 46-62.
NetIn(W, cue, s, i) == cue[i] + SumTo([j \in 1..Len(s) |-> W[i][j] * s[j]], Len(s))

RECURSIVE PassFrom(_, _, _, _, _)
PassFrom(W, th, cue, s, i) ==
    IF i > Len(s) THEN s
    ELSE PassFrom(W, th, cue,
                  [s EXCEPT ![i] = Activation(NetIn(W, cue, s, i), th, s[i]).out],
                  i + 1)

RECURSIVE Settle(_, _, _, _)
Settle(W, th, cue, s) ==
    LET t == PassFrom(W, th, cue, s, 1)
    IN  IF t = s THEN s ELSE Settle(W, th, cue, t)

\* ---------------------------------------------------------- specifications
Init ==
    /\ pc = "start"
    /\ neuron_num = 0
    /\ threshold = 0
    /\ weight_matrix = <<>>
    /\ call = [op |-> "none", arg |-> <<>>]
    /\ stored = [set |-> FALSE, v |-> <<>>]
    /\ replaced = [set |-> FALSE, v |-> <<>>]
    /\ fed_back = FALSE
    /\ outcome = "none"
    /\ input_vector = <<>>
    /\ intermediate_out = <<>>
    /\ node_index = <<>>
    /\ pos = 0
    /\ changed = FALSE
    /\ convergence = FALSE
    /\ result = <<>>

Next ==
    \/ \E n \in NeuronNums, th \in Thresholds : Hopfield_init(n, th)
    \/ \E v \in Vectors : train_net(v)
    \/ \E cue \in Vectors : UpdateNetCall(cue)
    \/ Shuffle
    \/ NodeStep
    \/ PassEnd
    \/ Return

\* update_net runs to completion once called: its steps are always taken.
Spec == Init /\ [][Next]_vars /\ WF_vars(Relax)


\* The state main() is in after line 91, then its lines 92-93; update_net may
\* be called again (repeated recalls of the same cue).
InitRef ==
    /\ pc = "idle"
    /\ neuron_num = RefN
    /\ threshold = RefThreshold
    /\ weight_matrix = Zeros(RefN)
    /\ call = [op |-> "__init__", arg |-> <<RefN, RefThreshold>>]
    /\ stored = [set |-> FALSE, v |-> <<>>]
    /\ replaced = [set |-> FALSE, v |-> <<>>]
    /\ fed_back = FALSE
    /\ outcome = "ok"
    /\ input_vector = <<>>
    /\ intermediate_out = <<>>
    /\ node_index = <<>>
    /\ pos = 0
    /\ changed = FALSE
    /\ convergence = FALSE
    /\ result = <<>>

NextRef ==
    \/ (call.op = "__init__" /\ train_net(RefPattern))
    \/ (call.op # "__init__" /\ UpdateNetCall(RefCue))
    \/ Shuffle
    \/ NodeStep
    \/ PassEnd
    \/ Return

SpecRef == InitRef /\ [][NextRef]_vars /\ WF_vars(Relax)

\* Symmetric zero-diagonal n x n matrices over Weights, one choice per
\* unordered pair of nodes.
Pairs(n) == {p \in (1..n) \X (1..n) : p[1] < p[2]}
SymZeroDiag(n) ==
    {[i \in 1..n |-> [j \in 1..n |->
        IF i = j THEN 0 ELSE IF i < j THEN u[<<i, j>>] ELSE u[<<j, i>>]]] :
     u \in [Pairs(n) -> Weights]}

\* A store whose weight_matrix attribute holds an arbitrary symmetric
\* zero-diagonal matrix, recalled with cues of its own length.
InitW ==
    /\ pc = "idle"
    /\ neuron_num \in 1..MaxNW
    /\ threshold \in Thresholds
    /\ weight_matrix \in SymZeroDiag(neuron_num)
    /\ call = [op |-> "__init__", arg |-> <<neuron_num, threshold>>]
    /\ stored = [set |-> FALSE, v |-> <<>>]
    /\ replaced = [set |-> FALSE, v |-> <<>>]
    /\ fed_back = FALSE
    /\ outcome = "ok"
    /\ input_vector = <<>>
    /\ intermediate_out = <<>>
    /\ node_index = <<>>
    /\ pos = 0
    /\ changed = FALSE
    /\ convergence = FALSE
    /\ result = <<>>

NextW ==
    \/ \E cue \in BinVec(neuron_num) : UpdateNetCall(cue)
    \/ Shuffle
    \/ NodeStep
    \/ PassEnd
    \/ Return

SpecW == InitW /\ [][NextW]_vars /\ WF_vars(Relax)

\* ------------------------------------------------------------------ claims
InUpdate == pc \in {"while", "for"}
Returned == pc = "idle" /\ call.op = "update_net" /\ outcome = "ok"
Trained == pc = "idle" /\ call.op = "train_net"
IsBinary(s) == \A i \in 1..Len(s) : s[i] \in {0, 1}

\* The Hebbian outer product of the bipolar encoding of v, zero diagonal.
Hebbian(v) ==
    [i \in 1..Len(v) |-> [j \in 1..Len(v) |->
        IF i = j THEN 0 ELSE (2 * v[i] - 1) * (2 * v[j] - 1)]]

\* C1: with a symmetric zero-diagonal weight matrix, any threshold and any
\* binary cue of length N, every run of update_net reaches convergence,
\* whatever order each shuffle picks.
C1_Termination == InUpdate ~> convergence

C1_Witness ==
    /\ Returned
    /\ result # call.arg
    /\ \E i, j \in 1..neuron_num : weight_matrix[i][j] = -1

\* C2: after train_net(P), threshold 0, update_net(P) returns exactly P.
C2_ExactCueIdempotence ==
    (/\ pc = "idle"
     /\ call.op = "update_net"
     /\ threshold = 0
     /\ stored.set
     /\ Len(stored.v) = neuron_num
     /\ call.arg = stored.v)
    => (outcome = "ok" /\ result = stored.v)

\* C3: after train_net(v) with a pattern of length N the weight matrix is
\* the Hebbian outer product of the bipolar encoding of v, zero diagonal.
C3_TrainIsHebbian ==
    (Trained /\ Len(call.arg) = neuron_num)
    => (outcome = "ok" /\ weight_matrix = Hebbian(call.arg))

C3_Witness ==
    /\ Trained
    /\ Len(call.arg) = neuron_num
    /\ \E i, j \in 1..neuron_num : weight_matrix[i][j] = 1
    /\ \E i, j \in 1..neuron_num : weight_matrix[i][j] = -1

\* C4: the weight matrix of a constructed store is square and symmetric in
\* every reachable state.
C4_Symmetry ==
    pc \notin {"start", "failed"} =>
        \A i, j \in 1..Len(weight_matrix) :
            /\ Len(weight_matrix[i]) = Len(weight_matrix)
            /\ weight_matrix[i][j] = weight_matrix[j][i]

C4_Witness ==
    /\ Returned
    /\ neuron_num >= 3
    /\ Len(call.arg) = neuron_num
    /\ stored.set /\ Len(stored.v) = neuron_num
    /\ \E i, j \in 1..neuron_num : weight_matrix[i][j] = -1

\* C5: the diagonal of the weight matrix of a constructed store is zero in
\* every reachable state.
C5_ZeroDiagonal ==
    pc \notin {"start", "failed"} =>
        \A i \in 1..Len(weight_matrix) : weight_matrix[i][i] = 0

C5_Witness ==
    /\ InUpdate
    /\ Len(call.arg) = neuron_num
    /\ call.arg # intermediate_out
    /\ neuron_num >= 3
    /\ stored.set /\ Len(stored.v) = neuron_num
    /\ \A i, j \in 1..neuron_num : i # j => weight_matrix[i][j] # 0

\* C6: in the vector example of main() every recall of [0,0,1,0] terminates
\* and returns the stored pattern [1,1,1,0], whatever the shuffles.
C6_ReferenceRecall ==
    /\ [](pc = "idle" /\ call.op = "update_net"
            => outcome = "ok" /\ result = RefPattern)
    /\ (InUpdate ~> Returned)

C6_Witness ==
    /\ Returned
    /\ stored = [set |-> TRUE, v |-> RefPattern]
    /\ call.arg = RefCue
    /\ result = RefPattern

\* C7: train_net on a store of N >= 1 neurons with a pattern whose length
\* differs from N raises and leaves the weight matrix as it was.
C7_TrainRejectsMismatch ==
    [][(/\ pc = "idle"
        /\ pc' = "idle"
        /\ call'.op = "train_net"
        /\ neuron_num >= 1
        /\ Len(call'.arg) # neuron_num)
       => (outcome' \notin {"ok", "none"} /\ weight_matrix' = weight_matrix)]_vars

\* C8: with a cue of length N the working state of update_net is a 0/1
\* vector of length N at every step, and so is the vector it returns.
C8_BinaryShape ==
    /\ (InUpdate /\ Len(call.arg) = neuron_num)
        => (Len(intermediate_out) = neuron_num /\ IsBinary(intermediate_out))
    /\ (Returned /\ Len(call.arg) = neuron_num)
        => (Len(result) = neuron_num /\ IsBinary(result))

C8_Witness ==
    /\ Returned
    /\ Len(call.arg) = neuron_num
    /\ \E i \in 1..neuron_num : result[i] = 0 /\ call.arg[i] = 1
    /\ \E i \in 1..neuron_num : result[i] = 1

\* C9: no step of update_net changes neuron_num, threshold or weight_matrix;
\* a step that changes the store is the construction or a train_net.
C9_RecallKeepsStore ==
    [][store' # store =>
        \/ pc = "start"
        \/ (pc = "idle" /\ pc' = "idle" /\ call'.op = "train_net")]_vars

C9_Witness ==
    /\ Returned
    /\ Len(call.arg) = neuron_num
    /\ result # call.arg
    /\ stored.set /\ Len(stored.v) = neuron_num
    /\ weight_matrix # Zeros(neuron_num)
    /\ threshold # 0

\* C10: construction with neuron_num <= 0 fails and yields no store; with
\* neuron_num >= 1 it yields an all-zero N x N matrix.
C10_ConstructValidatesSize ==
    call.op = "__init__" =>
        IF call.arg[1] <= 0
        THEN pc = "failed" /\ outcome # "ok"
        ELSE pc = "idle" /\ outcome = "ok" /\ neuron_num = call.arg[1]
             /\ weight_matrix = Zeros(call.arg[1])

\* C11: update_net on a store of N >= 1 neurons with a cue whose length
\* differs from N raises at entry: no node is evaluated (the for loop never
\* gets past its first position) and no vector is returned.
C11_RecallRejectsMismatch ==
    (/\ call.op = "update_net"
     /\ neuron_num >= 1
     /\ Len(call.arg) # neuron_num)
    => /\ pos <= 1
       /\ outcome # "ok"
       /\ (InUpdate => intermediate_out = call.arg)

\* C12: train_net replaces the matrix: a train_net(P2) on a store that holds
\* P1 leaves the matrix a fresh store gets from train_net(P2) alone, and
\* training the pattern the store holds again leaves the matrix as it is.
C12_TrainReplaces ==
    [][(/\ pc = "idle"
        /\ pc' = "idle"
        /\ call'.op = "train_net"
        /\ stored.set
        /\ Len(stored.v) = neuron_num
        /\ Len(call'.arg) = neuron_num)
       => /\ outcome' = "ok"
          /\ weight_matrix' = Hebbian(call'.arg)
          /\ (call'.arg = stored.v => weight_matrix' = weight_matrix)]_vars

C12_Witness ==
    /\ Trained
    /\ outcome = "ok"
    /\ replaced.set
    /\ Len(replaced.v) = neuron_num
    /\ Len(stored.v) = neuron_num
    /\ Hebbian(replaced.v) # weight_matrix
    /\ Hebbian(stored.v) = weight_matrix

\* A recall, returned, of a cue of length N on a store that holds a pattern
\* of length N, threshold 0.
RecalledTrained ==
    /\ Returned
    /\ threshold = 0
    /\ stored.set
    /\ Len(stored.v) = neuron_num
    /\ Len(call.arg) = neuron_num

\* The 1s of cue c on the 1-positions and on the 0-positions of pattern p.
OnesOn(c, p, b) == Cardinality({i \in 1..Len(c) : c[i] = 1 /\ p[i] = b})

\* C13 as claimed: on a store trained on one pattern, threshold 0, the vector
\* update_net returns is the same under every choice of shuffle orders: it
\* is the vector the run in index order returns.
C13_OrderIndependent ==
    RecalledTrained
    => result = Settle(weight_matrix, threshold, call.arg, call.arg)

\* C13 amended: the same, for the cues whose 1s fall on the pattern's
\* 1-positions and on its 0-positions in different numbers.
C13_OrderIndependentUntied ==
    (RecalledTrained
     /\ OnesOn(call.arg, stored.v, 1) # OnesOn(call.arg, stored.v, 0))
    => result = Settle(weight_matrix, threshold, call.arg, call.arg)

C13_Witness ==
    /\ RecalledTrained
    /\ OnesOn(call.arg, stored.v, 1) # OnesOn(call.arg, stored.v, 0)
    /\ OnesOn(call.arg, stored.v, 0) >= 1
    /\ \E i, j \in 1..neuron_num : stored.v[i] # stored.v[j]
    /\ result # call.arg

\* The net input of node i in working state s: the original cue's value at
\* i plus the weighted sum of the current working state.
NetInput(i, s) ==
    call.arg[i] + SumTo([j \in 1..neuron_num |-> weight_matrix[i][j] * s[j]],
                        neuron_num)

\* C14: a step of the for loop on node i sets the working state at i to 1 if
\* cue[i] + sum_j W[i][j]*state[j] >= threshold (a tie included) and to 0
\* otherwise, with the original cue and the current working state, and
\* changes no other element.
C14_NodeRule ==
    [][(/\ pc = "for"
        /\ pc' = "for"
        /\ Len(call.arg) = neuron_num
        /\ Len(weight_matrix) = neuron_num)
       => LET i == node_index[pos]
          IN  /\ pos' = pos + 1
              /\ intermediate_out'[i] =
                    IF NetInput(i, intermediate_out) >= threshold THEN 1 ELSE 0
              /\ \A j \in 1..neuron_num :
                    j # i => intermediate_out'[j] = intermediate_out[j]
              /\ Len(intermediate_out') = neuron_num]_vars

\* A node is about to be evaluated in a pass that already changed another
\* node, its net input ties with the threshold and it is off.
C14_Witness ==
    /\ pc = "for"
    /\ pos <= Len(node_index)
    /\ Len(call.arg) = neuron_num
    /\ Len(weight_matrix) = neuron_num
    /\ changed
    /\ intermediate_out # call.arg
    /\ intermediate_out[node_index[pos]] = 0
    /\ NetInput(node_index[pos], intermediate_out) = threshold
    /\ NetInput(node_index[pos], call.arg) # threshold

\* r is a fixed point of the update rule under the bias of the original cue.
FixedPoint(r) ==
    \A i \in 1..neuron_num : (r[i] = 1) <=> (NetInput(i, r) >= threshold)

\* C15: update_net returns only from the end of a complete pass that visited
\* each of the N nodes once and changed none, it returns the working state
\* of that pass, and (cue and matrix of size N) that vector is a fixed point.
C15_ReturnsFixedPoint ==
    [][(InUpdate /\ pc' = "idle" /\ outcome' = "ok")
       => /\ pc = "while"
          /\ convergence
          /\ ~changed
          /\ Len(node_index) = neuron_num
          /\ pos = neuron_num + 1
          /\ \A k \in 1..neuron_num : \E q \in 1..neuron_num : node_index[q] = k
          /\ result' = intermediate_out
          /\ (Len(call.arg) = neuron_num /\ Len(weight_matrix) = neuron_num)
                => FixedPoint(result')]_vars

C15_Witness ==
    /\ Returned
    /\ Len(call.arg) = neuron_num
    /\ Len(weight_matrix) = neuron_num
    /\ neuron_num >= 2
    /\ FixedPoint(result)
    /\ \E i \in 1..neuron_num : result[i] # call.arg[i]
    /\ \E i \in 1..neuron_num : NetInput(i, result) = threshold
    /\ \E i, j \in 1..neuron_num : weight_matrix[i][j] # 0

\* C16: update_net works on a copy: the caller's cue array holds the values
\* it was passed with at every step of the call and after it.
C16_CueUntouched ==
    call.op = "update_net" => input_vector = call.arg

\* A second pass reads the bias after the first changed the working state.
C16_Witness ==
    /\ pc = "for"
    /\ pos >= 2
    /\ ~changed
    /\ Len(call.arg) = neuron_num
    /\ intermediate_out # call.arg
    /\ input_vector = call.arg
    /\ \E i \in 1..neuron_num : call.arg[i] = 1 /\ intermediate_out[i] = 0

\* C17: with a symmetric zero-diagonal matrix, update_net of a vector that
\* update_net returned on the same store changes no node, under any order,
\* and returns that vector.
C17_RecallIdempotent ==
    (call.op = "update_net" /\ fed_back)
    => /\ InUpdate => (intermediate_out = call.arg /\ ~changed)
       /\ pc = "idle" => (outcome = "ok" /\ result = call.arg)

C17_Witness ==
    /\ Returned
    /\ fed_back
    /\ result = call.arg
    /\ \E i, j \in 1..neuron_num : weight_matrix[i][j] = -1
    /\ \E i, j \in 1..neuron_num : result[i] = 1 /\ result[j] = 0

====
